---------------------------- MODULE Spec2Model ----------------------------
(***************************************************************************)
(* little-nova (src/src/main.rs): an HTTPS comment service.                *)
(*                                                                         *)
(* State: the shared store  Db = Arc<RwLock<HashMap<Uuid, Comment>>>, the  *)
(* RwLock's holders, the requests in flight (one per connection slot, with *)
(* the position of each handler and its local variables), the lifecycle of *)
(* main() and of the spawned graceful_shutdown task, and the two timers    *)
(* (tower's 10 s request timeout, axum-server's 30 s graceful window).     *)
(*                                                                         *)
(* Handlers are broken at every point where another worker thread of the   *)
(* multi-threaded tokio runtime can observe or change the store: taking    *)
(* the lock, each access under it, releasing it.                           *)
(*                                                                         *)
(* Time is discrete (StepSecs per Tick).  A handler body has no .await, so *)
(* it runs inside one poll of its task: the model lets no time pass while  *)
(* a request is inside a handler body, and a timer that is due fires       *)
(* before time passes further.                                             *)
(***************************************************************************)
EXTENDS Integers, Sequences, FiniteSets, TLC

\* ------------------------------------------------------------------ bounds
MaxReqs == 2
MaxIds == 3
MaxUtc == 3
MaxPage == 2
MaxSignals == 2
LiveMaxIds == 1
MaxArrivals == 3
MaxLockReqs == 3

\* ------------------------------------------------------- program constants
TimeoutSecs == 10
DrainSecs == 30
DefaultOffset == 0
DefaultLimit == 100

\* The clock's step: the timers of lines 65 and 255 end on a step
StepSecs == TimeoutSecs \div 2

\* -------------------------------------------------------------- data model
Reqs == 1..MaxReqs
\* The requests that contend for the lock where the lock is studied on its
\* own; Slots are all the connection slots there are
LockReqs == 1..MaxLockReqs
Slots == Reqs \cup LockReqs
Uuids == 1..MaxIds
Names == {"ann"}
Texts == {"hi"}
Utcs == 1..MaxUtc

\* struct Comment { id, name, text, utc }
Comment == [id : Uuids, name : Names, text : Texts, utc : Utcs]

\* struct CreateComment { name, text, utc }: the decoded JSON body
CreateComment == [name : Names, text : Texts, utc : Utcs]

\* Option<usize>::None (usize itself is never negative)
NoneOpt == -1

\* struct Pagination { offset: Option<usize>, limit: Option<usize> }; a
\* missing query string is Pagination::default(), both None
Pagination == [offset : {NoneOpt} \cup 0..MaxPage, limit : {NoneOpt} \cup 0..MaxPage]

UnwrapOr(opt, dflt) == IF opt = NoneOpt THEN dflt ELSE opt

NoComment == [id |-> 0, name |-> "", text |-> "", utc |-> 0]
NoPagination == [offset |-> NoneOpt, limit |-> NoneOpt]
NoOutcome == [status |-> "None"]

\* ---------------------------------------------------------------- HashMap
\* The map is a function from the keys present to their values.
EmptyMap == << >>

ContainsKey(m, k) == k \in DOMAIN m

\* A store that keeps the last comment only
InsertOnly(m, k, v) == [x \in {k} |-> v]

\* HashMap::insert: the value under k is set, replacing one already there
Insert(m, k, v) == [x \in (DOMAIN m) \cup {k} |-> IF x = k THEN v ELSE m[x]]

\* A lookup that misses every key
LookupMiss(m, k) == [status |-> "NotFound"]

\* A lookup that answers a missing key with a default record
LookupOrDefault(m, k) ==
    IF k \in DOMAIN m
    THEN [status |-> "Ok", body |-> m[k]]
    ELSE [status |-> "Ok", body |-> NoComment]

\* HashMap::get(..).cloned().ok_or(NOT_FOUND)
Lookup(m, k) ==
    IF ContainsKey(m, k)
    THEN [status |-> "Ok", body |-> m[k]]
    ELSE [status |-> "NotFound"]

\* HashMap::values as a set
Range(f) == {f[x] : x \in DOMAIN f}

\* HashMap::len
Len0(m) == Cardinality(DOMAIN m)

\* The orders in which HashMap::values may visit the entries: the hash
\* order is arbitrary (RandomState), so every permutation of the keys.
IterOrders(m) ==
    {s \in [1..Len0(m) -> DOMAIN m] : \A i, j \in 1..Len0(m) : s[i] = s[j] => i = j}

\* values().cloned() in iteration order s
Values(m, s) == [i \in 1..Len(s) |-> m[s[i]]]

\* A skip that starts over when n is past the end
SkipClamp(s, n) == IF n >= Len(s) THEN s ELSE SubSeq(s, n + 1, Len(s))

\* Iterator::skip(n), Iterator::take(n)
Skip(s, n) == IF n >= Len(s) THEN << >> ELSE SubSeq(s, n + 1, Len(s))

\* A take that keeps one element more than asked
TakeOneMore(s, n) == IF n + 1 >= Len(s) THEN s ELSE SubSeq(s, 1, n + 1)

\* Iterator::take(n)
Take(s, n) == IF n >= Len(s) THEN s ELSE SubSeq(s, 1, n)

\* slice::sort_by(|a, b| b.utc.cmp(&a.utc)): a stable sort, newest first.
\* InsertDesc puts c behind every element at least as new as c.
RECURSIVE InsertDesc(_, _)
InsertDesc(c, s) ==
    IF s = << >> THEN <<c>>
    ELSE IF Head(s).utc >= c.utc THEN <<Head(s)>> \o InsertDesc(c, Tail(s))
    ELSE <<c>> \o s

RECURSIVE SortFrom(_, _)
SortFrom(done, rest) ==
    IF rest = << >> THEN done
    ELSE SortFrom(InsertDesc(Head(rest), done), Tail(rest))

\* A sort that leaves the collected order as it is
SortNone(s) == s

SortByUtcDesc(s) == SortFrom(<< >>, s)

\* get_comment_entries, lines 145-152: skip and take on the map's values in
\* iteration order, and then the sort of what was collected
PageOf(m, order, pag) ==
    SortByUtcDesc(Take(Skip(Values(m, order), UnwrapOr(pag.offset, DefaultOffset)),
                       UnwrapOr(pag.limit, DefaultLimit)))


\* ------------------------------------------------------------------ state
VARIABLES
    phase,      \* main(): "Starting", "Serving", "ShuttingDown", "Stopped", "Aborted"
    sigTask,    \* graceful_shutdown task: "unspawned", "waiting", "woken", "done"
    trigger,    \* the select! branch that completed: "none", "terminate", "interrupt"
    signals,    \* signals delivered to the process so far
    ignored,    \* signals delivered after the graceful shutdown began
    drain,      \* seconds since handle.graceful_shutdown(Some(30 s))
    db,         \* the HashMap behind the RwLock
    issued,     \* the ids Uuid::new_v4 has produced
    readers,    \* requests holding a read guard
    writer,     \* the request holding the write guard, 0 when none
    pc,         \* each request's position
    kind,       \* each request's route: "none", "create", "get", "list"
    timer,      \* seconds the request has spent inside the timeout layer
    comment,    \* create_comment's local `comment`
    gid,        \* get_comment's Path(id)
    pag,        \* get_comment_entries' `pagination`
    total,      \* get_comment_entries' `total`
    entries,    \* get_comment_entries' `comment_entries`
    out,        \* the outcome the request path produced
    returned,   \* the comments create responses have delivered to callers
    nReturned,  \* how many create responses were delivered
    atSignal,   \* each request's position when graceful shutdown began
    arrivals    \* connections accepted since the clock last moved

life == <<phase, sigTask, trigger, signals, ignored, drain>>
store == <<db, issued>>
lock == <<readers, writer>>
locals == <<comment, gid, pag, total, entries>>
hist == <<returned, nReturned>>
vars == <<phase, sigTask, trigger, signals, ignored, drain, db, issued, readers, writer,
          pc, kind, timer, comment, gid, pag, total, entries, out,
          returned, nReturned, atSignal, arrivals>>

Min(a, b) == IF a <= b THEN a ELSE b

\* main() line 44: Db::default(); nothing is served before line 88
Init ==
    /\ phase = "Starting"
    /\ sigTask = "unspawned"
    /\ trigger = "none"
    /\ signals = 0
    /\ ignored = 0
    /\ drain = 0
    /\ db = EmptyMap
    /\ issued = {}
    /\ readers = {}
    /\ writer = 0
    /\ pc = [r \in Slots |-> "idle"]
    /\ kind = [r \in Slots |-> "none"]
    /\ timer = [r \in Slots |-> 0]
    /\ comment = [r \in Slots |-> NoComment]
    /\ gid = [r \in Slots |-> 0]
    /\ pag = [r \in Slots |-> NoPagination]
    /\ total = [r \in Slots |-> 0]
    /\ entries = [r \in Slots |-> << >>]
    /\ out = [r \in Slots |-> NoOutcome]
    /\ returned = {}
    /\ nReturned = 0
    /\ atSignal = [r \in Slots |-> "idle"]
    /\ arrivals = 0

\* The process is alive and its runtime polls tasks
Running == phase \in {"Serving", "ShuttingDown"}

\* Positions inside a handler body (no .await between them)
InHandler == {"write", "insert", "read", "get", "len", "values", "render"}

InFlight(r) == pc[r] # "idle"

\* ------------------------------------------------------ lifecycle, main()
\* lines 78-92: the PEM files load, the listener task is spawned, serve()
TlsLoaded ==
    /\ UNCHANGED arrivals
    /\ phase = "Starting"
    /\ phase' = "Serving"
    /\ sigTask' = "waiting"
    /\ UNCHANGED <<trigger, signals, ignored, drain, store, lock, pc, kind, timer, locals,
                   out, hist, atSignal>>

\* A start that goes on to serve when the PEM files cannot be loaded
TlsFailedServes ==
    /\ phase = "Starting"
    /\ phase' = "Serving"
    /\ UNCHANGED <<sigTask, trigger, signals, ignored, drain, store, lock, pc, kind, timer,
                   locals, out, hist, atSignal, arrivals>>

\* lines 78-80: from_pem_file(..).await.unwrap() panics
TlsFailed ==
    /\ UNCHANGED arrivals
    /\ phase = "Starting"
    /\ phase' = "Aborted"
    /\ UNCHANGED <<sigTask, trigger, signals, ignored, drain, store, lock, pc, kind, timer,
                   locals, out, hist, atSignal>>

\* ------------------------------------------------- graceful_shutdown task
SignalKinds == {"terminate", "interrupt"}

\* A listener that waits for the next signal again after each one
OnSignalLoop(task) == "woken"

\* lines 248-251: select! completes on the first signal of either kind; the
\* task does not loop, so a signal after that finds no listener waiting
OnSignal(task) == IF task = "waiting" THEN "woken" ELSE task

\* SIGTERM or SIGINT reaches the process
Signal(sig) ==
    /\ UNCHANGED arrivals
    /\ Running
    /\ sigTask # "unspawned"
    /\ signals < MaxSignals
    /\ signals' = signals + 1
    /\ ignored' = IF phase = "ShuttingDown" THEN ignored + 1 ELSE ignored
    /\ sigTask' = OnSignal(sigTask)
    /\ trigger' = IF sigTask = "waiting" THEN sig ELSE trigger
    /\ UNCHANGED <<phase, drain, store, lock, pc, kind, timer, locals, out, hist,
                   atSignal>>

\* Handle::shutdown(): the server stops at once
HandleShutdown(ph) == "Stopped"

\* Handle::graceful_shutdown(Some(d)): the server stops accepting and the
\* window of d seconds starts; connections are left to finish
HandleGracefulShutdown(ph) == IF ph = "Serving" THEN "ShuttingDown" ELSE ph

\* lines 252-255
GracefulShutdown ==
    /\ UNCHANGED arrivals
    /\ Running
    /\ sigTask = "woken"
    /\ sigTask' = "done"
    /\ phase' = HandleGracefulShutdown(phase)
    /\ drain' = 0
    /\ atSignal' = pc
    /\ UNCHANGED <<trigger, signals, ignored, store, lock, pc, kind, timer, locals, out,
                   hist>>

\* Handle::graceful_shutdown(None): a window that never ends
DrainNever == FALSE

\* The 30 s window has elapsed
DrainDue == phase = "ShuttingDown" /\ drain >= DrainSecs

\* Every connection has ended
DrainedDue == phase = "ShuttingDown" /\ \A r \in Slots : ~InFlight(r)

\* serve() returns once every connection has ended
Drained ==
    /\ UNCHANGED arrivals
    /\ DrainedDue
    /\ phase' = "Stopped"
    /\ UNCHANGED <<sigTask, trigger, signals, ignored, drain, store, lock, pc, kind, timer,
                   locals, out, hist, atSignal>>

\* serve() returns when the window elapses; main returns and the runtime
\* drops whatever is still in flight
DrainExpire ==
    /\ UNCHANGED arrivals
    /\ DrainDue
    /\ phase' = "Stopped"
    /\ UNCHANGED <<sigTask, trigger, signals, ignored, drain, store, lock, pc, kind, timer,
                   locals, out, hist, atSignal>>


\* ------------------------------------------------------------ the RwLock
\* A write lock that does not wait for the readers
CanWriteOverReaders == writer = 0

\* A lock that admits one holder at a time, as a Mutex does
CanReadAlone == writer = 0 /\ readers = {}

\* RwLock::read is granted while no writer holds the lock; RwLock::write
\* while nobody holds it
CanRead == writer = 0
CanWrite == writer = 0 /\ readers = {}

\* ------------------------------------------------------ request admission
\* A listener that stays open during the graceful window
AcceptingWhileRunning == Running

\* The server accepts connections only while serving; a request takes the
\* lowest free slot (slots are interchangeable)
Accepting == phase = "Serving"

FreeSlot(r) == pc[r] = "idle" /\ \A q \in Slots : pc[q] = "idle" => r <= q

\* POST /create: the Json extractor awaits the body inside the timeout layer
AcceptCreate(r) ==
    /\ Accepting
    /\ FreeSlot(r)
    /\ arrivals' = Min(arrivals + 1, MaxArrivals)
    /\ pc' = [pc EXCEPT ![r] = "extract"]
    /\ kind' = [kind EXCEPT ![r] = "create"]
    /\ timer' = [timer EXCEPT ![r] = 0]
    /\ UNCHANGED <<life, store, lock, locals, out, hist, atSignal>>

\* GET /:id: Path(id) is read from the URI, the handler body runs at once
AcceptGet(r, id) ==
    /\ Accepting
    /\ FreeSlot(r)
    /\ arrivals' = Min(arrivals + 1, MaxArrivals)
    /\ pc' = [pc EXCEPT ![r] = "read"]
    /\ kind' = [kind EXCEPT ![r] = "get"]
    /\ gid' = [gid EXCEPT ![r] = id]
    /\ UNCHANGED <<life, store, lock, timer, comment, pag, total, entries, out, hist,
                   atSignal>>

\* GET /: the query string is read from the URI, the handler body runs at once
AcceptList(r) ==
    /\ Accepting
    /\ FreeSlot(r)
    /\ arrivals' = Min(arrivals + 1, MaxArrivals)
    /\ pc' = [pc EXCEPT ![r] = "read"]
    /\ kind' = [kind EXCEPT ![r] = "list"]
    /\ UNCHANGED <<life, store, lock, timer, locals, out, hist, atSignal>>

\* ------------------------------------------------- the 10 s timeout layer
\* A timeout layer set to the length of the graceful window
TimeoutLate(r) == pc[r] = "extract" /\ timer[r] >= DrainSecs

\* lines 55-65: tower's Timeout polls the inner future first and its sleep
\* second, so Elapsed is the result when the sleep is over and the request
\* is still waiting at an .await; HandleErrorLayer turns it into 408
TimeoutDue(r) == pc[r] = "extract" /\ timer[r] >= TimeoutSecs

\* A timeout that takes back what creates have stored
TimeoutUndoes(r) ==
    /\ Running
    /\ pc[r] = "extract" /\ timer[r] >= TimeoutSecs
    /\ out' = [out EXCEPT ![r] = [status |-> "RequestTimeout"]]
    /\ pc' = [pc EXCEPT ![r] = "respond"]
    /\ timer' = [timer EXCEPT ![r] = 0]
    /\ db' = EmptyMap
    /\ UNCHANGED <<life, issued, lock, kind, locals, hist, atSignal, arrivals>>

Timeout(r) ==
    /\ UNCHANGED arrivals
    /\ Running
    /\ TimeoutDue(r)
    /\ out' = [out EXCEPT ![r] = [status |-> "RequestTimeout"]]
    /\ pc' = [pc EXCEPT ![r] = "respond"]
    /\ timer' = [timer EXCEPT ![r] = 0]
    /\ UNCHANGED <<life, store, lock, kind, locals, hist, atSignal>>

\* ---------------------------------------------------------- create_comment
\* A generator that may repeat an id it produced before
AnyV4(used) == Uuids

\* Uuid::new_v4(): a random 122-bit value, taken to differ from every id
\* produced before.  Ids are opaque, so the new one is named by the least
\* number not in use (every order of iteration and every id a caller may
\* ask for are enumerated where they matter).
NewV4(used) == {id \in Uuids \ used : \A other \in Uuids \ used : id <= other}

\* lines 167-175: the body has arrived and decodes to `input`; the comment
\* is built with a new id
BuildComment(r, input) ==
    /\ UNCHANGED arrivals
    /\ Running
    /\ pc[r] = "extract"
    /\ ~TimeoutDue(r)
    /\ \E id \in NewV4(issued) :
          /\ issued' = issued \cup {id}
          /\ comment' = [comment EXCEPT ![r] =
                [id |-> id, name |-> input.name, text |-> input.text, utc |-> input.utc]]
    /\ pc' = [pc EXCEPT ![r] = "write"]
    /\ UNCHANGED <<life, db, lock, kind, timer, gid, pag, total, entries, out, hist,
                   atSignal>>

\* line 177: db.write().unwrap()
AcquireWrite(r) ==
    /\ UNCHANGED arrivals
    /\ Running
    /\ pc[r] = "write"
    /\ CanWrite
    /\ writer' = r
    /\ pc' = [pc EXCEPT ![r] = "insert"]
    /\ UNCHANGED <<life, store, readers, kind, timer, locals, out, hist, atSignal>>

\* lines 177-179: .insert(comment.id, comment.clone()), the guard is dropped
\* at the end of the statement, and (201, Json(comment)) is the result
InsertComment(r) ==
    /\ UNCHANGED arrivals
    /\ Running
    /\ pc[r] = "insert"
    /\ writer = r
    /\ db' = Insert(db, comment[r].id, comment[r])
    /\ writer' = 0
    /\ out' = [out EXCEPT ![r] = [status |-> "Created", body |-> comment[r]]]
    /\ pc' = [pc EXCEPT ![r] = "respond"]
    /\ timer' = [timer EXCEPT ![r] = 0]
    /\ UNCHANGED <<life, issued, readers, kind, locals, hist, atSignal>>

\* ------------------------------------------------------------- get_comment
\* lines 113-114: db.read().unwrap()
AcquireReadGet(r) ==
    /\ UNCHANGED arrivals
    /\ Running
    /\ pc[r] = "read"
    /\ kind[r] = "get"
    /\ CanRead
    /\ readers' = readers \cup {r}
    /\ pc' = [pc EXCEPT ![r] = "get"]
    /\ UNCHANGED <<life, store, writer, kind, timer, locals, out, hist, atSignal>>

\* A get that takes the comment out of the map (HashMap::remove)
GetCommentTakes(r) ==
    /\ Running
    /\ pc[r] = "get"
    /\ r \in readers
    /\ out' = [out EXCEPT ![r] = Lookup(db, gid[r])]
    /\ db' = [i \in DOMAIN db \ {gid[r]} |-> db[i]]
    /\ readers' = readers \ {r}
    /\ pc' = [pc EXCEPT ![r] = "respond"]
    /\ UNCHANGED <<life, issued, writer, kind, timer, locals, hist, atSignal, arrivals>>

\* lines 116-132: .get(&id).cloned().ok_or(NOT_FOUND)?, the guard is dropped,
\* the fields go to the template
GetComment(r) ==
    /\ UNCHANGED arrivals
    /\ Running
    /\ pc[r] = "get"
    /\ r \in readers
    /\ out' = [out EXCEPT ![r] = Lookup(db, gid[r])]
    /\ readers' = readers \ {r}
    /\ pc' = [pc EXCEPT ![r] = "respond"]
    /\ UNCHANGED <<life, store, writer, kind, timer, locals, hist, atSignal>>

\* ----------------------------------------------------- get_comment_entries
\* line 139: db.read().unwrap()
AcquireReadList(r) ==
    /\ UNCHANGED arrivals
    /\ Running
    /\ pc[r] = "read"
    /\ kind[r] = "list"
    /\ CanRead
    /\ readers' = readers \cup {r}
    /\ pc' = [pc EXCEPT ![r] = "len"]
    /\ UNCHANGED <<life, store, writer, kind, timer, locals, out, hist, atSignal>>

\* line 143: total = comment.len()
ReadTotal(r) ==
    /\ UNCHANGED arrivals
    /\ Running
    /\ pc[r] = "len"
    /\ total' = [total EXCEPT ![r] = Len0(db)]
    /\ pc' = [pc EXCEPT ![r] = "values"]
    /\ UNCHANGED <<life, store, lock, kind, timer, comment, gid, pag, entries, out, hist,
                   atSignal>>

\* lines 141-153: p is the request's query string (Pagination::default()
\* without one), used here first; values().cloned().skip().take().collect(),
\* then sort_by
CollectEntries(r, p) ==
    /\ UNCHANGED arrivals
    /\ Running
    /\ pc[r] = "values"
    /\ pag' = [pag EXCEPT ![r] = p]
    /\ \E order \in IterOrders(db) :
          entries' = [entries EXCEPT ![r] = PageOf(db, order, p)]
    /\ pc' = [pc EXCEPT ![r] = "render"]
    /\ UNCHANGED <<life, store, lock, kind, timer, comment, gid, total, out, hist,
                   atSignal>>

\* lines 154-157: the template is rendered from total and entries; the read
\* guard `comment` and the locals live to the end of the function
RenderEntries(r) ==
    /\ UNCHANGED arrivals
    /\ Running
    /\ pc[r] = "render"
    /\ out' = [out EXCEPT ![r] =
                 [status |-> "Ok", total |-> total[r], entries |-> entries[r]]]
    /\ readers' = readers \ {r}
    /\ pag' = [pag EXCEPT ![r] = NoPagination]
    /\ total' = [total EXCEPT ![r] = 0]
    /\ entries' = [entries EXCEPT ![r] = << >>]
    /\ pc' = [pc EXCEPT ![r] = "respond"]
    /\ UNCHANGED <<life, store, writer, kind, timer, comment, gid, hist, atSignal>>

\* ------------------------------------------------------------ the response
\* The response reaches the caller and the connection ends
Deliver(r) ==
    /\ UNCHANGED arrivals
    /\ Running
    /\ pc[r] = "respond"
    /\ returned' = IF out[r].status = "Created"
                   THEN returned \cup {out[r].body} ELSE returned
    /\ nReturned' = IF out[r].status = "Created" THEN nReturned + 1 ELSE nReturned
    /\ pc' = [pc EXCEPT ![r] = "idle"]
    /\ kind' = [kind EXCEPT ![r] = "none"]
    /\ comment' = [comment EXCEPT ![r] = NoComment]
    /\ gid' = [gid EXCEPT ![r] = 0]
    /\ pag' = [pag EXCEPT ![r] = NoPagination]
    /\ total' = [total EXCEPT ![r] = 0]
    /\ entries' = [entries EXCEPT ![r] = << >>]
    /\ out' = [out EXCEPT ![r] = NoOutcome]
    /\ atSignal' = [atSignal EXCEPT ![r] = "idle"]
    /\ UNCHANGED <<life, store, lock, timer>>

\* -------------------------------------------------------------------- time
\* StepSecs pass.  The sleeps that are due fire first and serve() returns as
\* soon as it can; no time passes while a request is inside a handler body.  A new step of the clock begins a new
\* count of the connections accepted in it.
Tick ==
    /\ Running
    /\ \A r \in Slots : pc[r] \notin InHandler /\ ~TimeoutDue(r)
    /\ ~DrainDue
    /\ ~DrainedDue
    /\ \/ \E r \in Slots : pc[r] = "extract"
       \/ phase = "ShuttingDown"
       \/ arrivals > 0
    /\ timer' = [r \in Slots |->
                   IF pc[r] = "extract" THEN Min(timer[r] + StepSecs, DrainSecs)
                   ELSE timer[r]]
    /\ drain' = IF phase = "ShuttingDown" THEN Min(drain + StepSecs, DrainSecs) ELSE drain
    /\ arrivals' = 0
    /\ UNCHANGED <<phase, sigTask, trigger, signals, ignored, store, lock, pc, kind,
                   locals, out, hist, atSignal>>

\* ----------------------------------------------------------- specification
\* The request path over the store, while the server is serving: every
\* input of every handler, every interleaving of MaxReqs requests.
Next ==
    \/ TlsLoaded
    \/ TlsFailed
    \/ \E r \in Reqs : AcceptCreate(r)
    \/ \E r \in Reqs, id \in Uuids : AcceptGet(r, id)
    \/ \E r \in Reqs : AcceptList(r)
    \/ \E r \in Reqs, input \in CreateComment : BuildComment(r, input)
    \/ \E r \in Reqs : AcquireWrite(r)
    \/ \E r \in Reqs : InsertComment(r)
    \/ \E r \in Reqs : AcquireReadGet(r)
    \/ \E r \in Reqs : GetComment(r)
    \/ \E r \in Reqs : AcquireReadList(r)
    \/ \E r \in Reqs : ReadTotal(r)
    \/ \E r \in Reqs, p \in Pagination : CollectEntries(r, p)
    \/ \E r \in Reqs : RenderEntries(r)
    \/ \E r \in Reqs : Deliver(r)

Spec == Init /\ [][Next]_vars

\* The list handler alone, on every store the creates can have built: k
\* stored comments under the ids 1..k, each returned to its caller.
StoresOver(ids) == [ids -> [name : Names, text : Texts, utc : Utcs]]

AllStores ==
    UNION {{[id \in 1..k |-> [id |-> id, name |-> s[id].name, text |-> s[id].text,
                              utc |-> s[id].utc]] : s \in StoresOver(1..k)} : k \in 0..MaxIds}

QueryInit ==
    /\ phase = "Serving"
    /\ sigTask = "waiting"
    /\ trigger = "none"
    /\ signals = 0
    /\ ignored = 0
    /\ drain = 0
    /\ db \in AllStores
    /\ issued = DOMAIN db
    /\ readers = {}
    /\ writer = 0
    /\ pc = [r \in Slots |-> "idle"]
    /\ kind = [r \in Slots |-> "none"]
    /\ timer = [r \in Slots |-> 0]
    /\ comment = [r \in Slots |-> NoComment]
    /\ gid = [r \in Slots |-> 0]
    /\ pag = [r \in Slots |-> NoPagination]
    /\ total = [r \in Slots |-> 0]
    /\ entries = [r \in Slots |-> << >>]
    /\ out = [r \in Slots |-> NoOutcome]
    /\ returned = Range(db)
    /\ nReturned = Len0(db)
    /\ atSignal = [r \in Slots |-> "idle"]
    /\ arrivals = 0

QueryNext ==
    \/ AcceptList(1)
    \/ AcquireReadList(1)
    \/ ReadTotal(1)
    \/ \E p \in Pagination : CollectEntries(1, p)
    \/ RenderEntries(1)
    \/ Deliver(1)

QuerySpec == QueryInit /\ [][QueryNext]_vars

\* The lifecycle: the same request path with the timeout layer, the signal
\* listener, the graceful window and the clock.  The inputs that only the
\* store's contents depend on are held to one value each.  Callers connect at a
\* finite rate: at most MaxArrivals connections are accepted per step of the
\* clock.
LifeInputs == {[name |-> "ann", text |-> "hi", utc |-> 1]}
LifePages == {NoPagination}
LifeIds == {1}

LifeNext ==
    \/ TlsLoaded
    \/ TlsFailed
    \/ \E sig \in SignalKinds : Signal(sig)
    \/ GracefulShutdown
    \/ Drained
    \/ DrainExpire
    \/ \E r \in Reqs : arrivals < MaxArrivals /\ AcceptCreate(r)
    \/ \E r \in Reqs, id \in LifeIds : arrivals < MaxArrivals /\ AcceptGet(r, id)
    \/ \E r \in Reqs : arrivals < MaxArrivals /\ AcceptList(r)
    \/ \E r \in Reqs : Timeout(r)
    \/ \E r \in Reqs, input \in LifeInputs : BuildComment(r, input)
    \/ \E r \in Reqs : AcquireWrite(r)
    \/ \E r \in Reqs : InsertComment(r)
    \/ \E r \in Reqs : AcquireReadGet(r)
    \/ \E r \in Reqs : GetComment(r)
    \/ \E r \in Reqs : AcquireReadList(r)
    \/ \E r \in Reqs : ReadTotal(r)
    \/ \E r \in Reqs, p \in LifePages : CollectEntries(r, p)
    \/ \E r \in Reqs : RenderEntries(r)
    \/ \E r \in Reqs : Deliver(r)
    \/ Tick

LifeSpec == Init /\ [][LifeNext]_vars

\* What the runtime and the lock guarantee: time does not stand still (only
\* finitely many steps fit between two steps of the clock), a timer that is
\* due fires, a task inside a handler body keeps running, a thread that
\* waits for the lock gets it once it is free often enough, and main()
\* returns when serve() does.  Nothing is promised about the callers: a body
\* may never arrive, a response may never be read, a signal may never come.
Fairness ==
    /\ SF_vars(Tick)
    /\ WF_vars(GracefulShutdown)
    /\ WF_vars(Drained)
    /\ WF_vars(DrainExpire)
    /\ \A r \in Reqs :
          /\ WF_vars(Timeout(r))
          /\ SF_vars(AcquireWrite(r))
          /\ WF_vars(InsertComment(r))
          /\ SF_vars(AcquireReadGet(r))
          /\ WF_vars(GetComment(r))
          /\ SF_vars(AcquireReadList(r))
          /\ WF_vars(ReadTotal(r))
          /\ WF_vars(\E p \in LifePages : CollectEntries(r, p))
          /\ WF_vars(RenderEntries(r))

\* The lifecycle once more for the claims about what eventually happens:
\* with one signal and at most LiveMaxIds comments created.
LiveNext ==
    \/ TlsLoaded
    \/ TlsFailed
    \/ signals = 0 /\ Signal("terminate")
    \/ GracefulShutdown
    \/ Drained
    \/ DrainExpire
    \/ \E r \in Reqs : arrivals < MaxArrivals /\ AcceptCreate(r)
    \/ \E r \in Reqs, id \in LifeIds : arrivals < MaxArrivals /\ AcceptGet(r, id)
    \/ \E r \in Reqs : arrivals < MaxArrivals /\ AcceptList(r)
    \/ \E r \in Reqs : Timeout(r)
    \/ \E r \in Reqs, input \in LifeInputs :
          Cardinality(issued) < LiveMaxIds /\ BuildComment(r, input)
    \/ \E r \in Reqs : AcquireWrite(r)
    \/ \E r \in Reqs : InsertComment(r)
    \/ \E r \in Reqs : AcquireReadGet(r)
    \/ \E r \in Reqs : GetComment(r)
    \/ \E r \in Reqs : AcquireReadList(r)
    \/ \E r \in Reqs : ReadTotal(r)
    \/ \E r \in Reqs, p \in LifePages : CollectEntries(r, p)
    \/ \E r \in Reqs : RenderEntries(r)
    \/ \E r \in Reqs : Deliver(r)
    \/ Tick

LiveSpec == Init /\ [][LiveNext]_vars /\ Fairness

\* The store's lock on its own: the request path without the clock and the
\* signals, requests arriving for as long as the server serves, at most
\* LiveMaxIds comments created.
LockNext ==
    \/ TlsLoaded
    \/ TlsFailed
    \/ \E r \in LockReqs : AcceptCreate(r)
    \/ \E r \in LockReqs, id \in LifeIds : AcceptGet(r, id)
    \/ \E r \in LockReqs : AcceptList(r)
    \/ \E r \in LockReqs, input \in LifeInputs :
          Cardinality(issued) < LiveMaxIds /\ BuildComment(r, input)
    \/ \E r \in LockReqs : AcquireWrite(r)
    \/ \E r \in LockReqs : InsertComment(r)
    \/ \E r \in LockReqs : AcquireReadGet(r)
    \/ \E r \in LockReqs : GetComment(r)
    \/ \E r \in LockReqs : AcquireReadList(r)
    \/ \E r \in LockReqs : ReadTotal(r)
    \/ \E r \in LockReqs, p \in LifePages : CollectEntries(r, p)
    \/ \E r \in LockReqs : RenderEntries(r)
    \/ \E r \in LockReqs : Deliver(r)

\* Fair scheduling of the worker threads: a thread that can take its next
\* step, and stays able to, takes it; a thread parked in RwLock::read or
\* RwLock::write gets the guard if the lock admits it again and again.  The
\* lock admits a writer only while no guard is held: std's RwLock promises
\* no priority policy, so a waiting writer does not keep readers out.
Scheduling ==
    \A r \in LockReqs :
        /\ SF_vars(AcquireWrite(r))
        /\ WF_vars(InsertComment(r))
        /\ SF_vars(AcquireReadGet(r))
        /\ WF_vars(GetComment(r))
        /\ SF_vars(AcquireReadList(r))
        /\ WF_vars(ReadTotal(r))
        /\ WF_vars(\E p \in LifePages : CollectEntries(r, p))
        /\ WF_vars(RenderEntries(r))

LockSpec == Init /\ [][LockNext]_vars /\ Scheduling

\* ================================================================== claims
Stored == Range(db)
StoredIds == DOMAIN db
ReturnedIds == {c.id : c \in returned}
CreatesInFlight == {r \in Reqs : kind[r] = "create"}

\* The step of get_comment that reads the store and produces the outcome
GetStep(r) == kind[r] = "get" /\ pc[r] = "get" /\ pc'[r] = "respond"

\* A list request that has collected its page and still holds its read guard
ListAtRender(r) == kind[r] = "list" /\ pc[r] = "render"

Offset(r) == UnwrapOr(pag[r].offset, DefaultOffset)
Limit(r) == UnwrapOr(pag[r].limit, DefaultLimit)

DistinctUtc(m) == \A a, b \in DOMAIN m : a # b => m[a].utc # m[b].utc

StrictlyDescending(s) == \A i, j \in 1..Len(s) : i < j => s[i].utc > s[j].utc

\* C1: once every create request has completed, the store holds as many
\* comments as create requests returned, and the ids they returned are
\* pairwise distinct (no insert lost or overwritten).
C1_NoLostInsert ==
    CreatesInFlight = {} =>
        /\ Len0(db) = nReturned
        /\ Cardinality(ReturnedIds) = nReturned
        /\ returned = Stored

C1_Witness ==
    /\ CreatesInFlight = {}
    /\ nReturned >= 2
    /\ Len0(db) = nReturned

\* C2: once a create has returned a comment with id i, every get for i that
\* reads the store produces Ok with exactly the comment the create returned.
C2_GetAfterCreate ==
    [][\A r \in Reqs : \A c \in returned :
          (GetStep(r) /\ gid[r] = c.id) => out'[r] = [status |-> "Ok", body |-> c]]_vars

C2_Witness ==
    \E r \in Reqs :
        /\ kind[r] = "get" /\ pc[r] = "respond"
        /\ out[r].status = "Ok"
        /\ out[r].body \in returned
        /\ Len0(db) >= 2

\* C3 as stated: a get for an id that no create request has returned yet
\* produces NotFound.
C3_NeverReturnedNotFound ==
    [][\A r \in Reqs :
          (GetStep(r) /\ gid[r] \notin ReturnedIds) => out'[r] = [status |-> "NotFound"]]_vars

\* C3 amended: a get for an id under which no create request has stored a
\* comment produces NotFound, as a value, in every state of the store.
C3_NeverStoredNotFound ==
    [][\A r \in Reqs :
          /\ (GetStep(r) /\ gid[r] \notin StoredIds) => out'[r] = [status |-> "NotFound"]
          /\ (kind[r] = "get" /\ pc[r] = "get") => ENABLED GetComment(r)]_vars

C3_Witness ==
    \E r \in Reqs :
        /\ kind[r] = "get" /\ pc[r] = "respond"
        /\ out[r] = [status |-> "NotFound"]
        /\ gid[r] \notin StoredIds
        /\ Len0(db) >= 1

\* C4: with pairwise distinct created_at in a store of N comments, a list
\* with offset 0 and a limit of N or more returns all N comments, newest
\* first in strictly descending order, and total = N.
C4_FullListSorted ==
    \A r \in Reqs :
        (ListAtRender(r) /\ DistinctUtc(db) /\ Offset(r) = 0 /\ Limit(r) >= Len0(db)) =>
            /\ total[r] = Len0(db)
            /\ Len(entries[r]) = Len0(db)
            /\ Range(entries[r]) = Stored
            /\ StrictlyDescending(entries[r])

C4_Witness ==
    \E r \in Reqs :
        /\ ListAtRender(r) /\ DistinctUtc(db)
        /\ pag[r].offset = 0 /\ pag[r].limit = Len0(db)
        /\ Len0(db) = 2
        /\ Len(entries[r]) = 2
        /\ entries[r][1].utc > entries[r][2].utc
        /\ entries[r][1].id > entries[r][2].id

\* C5: with N comments stored and 0 < k < N, a list with offset 0 and limit
\* k returns exactly k entries, and they are the k most recent comments of
\* the store: nothing left out is newer than something returned.
C5_LimitReturnsMostRecent ==
    \A r \in Reqs :
        (ListAtRender(r) /\ Offset(r) = 0 /\ 0 < Limit(r) /\ Limit(r) < Len0(db)) =>
            /\ Len(entries[r]) = Limit(r)
            /\ \A c \in Stored \ Range(entries[r]) :
                  \A e \in Range(entries[r]) : e.utc >= c.utc

\* C6: a list whose offset is N or more returns an empty page and total = N,
\* as an Ok response.
C6_OffsetPastEnd ==
    \A r \in Reqs :
        /\ (ListAtRender(r) /\ Offset(r) >= Len0(db)) =>
              (entries[r] = << >> /\ total[r] = Len0(db))
        /\ ListAtRender(r) => ENABLED RenderEntries(r)
        /\ (kind[r] = "list" /\ pc[r] = "respond") => out[r].status = "Ok"

C6_Witness ==
    \E r \in Reqs :
        /\ ListAtRender(r)
        /\ pag[r].offset > Len0(db)
        /\ Len0(db) >= 1
        /\ pag[r].limit >= 1
        /\ entries[r] = << >>
        /\ total[r] = Len0(db)

\* C7: while a list request holds its read guard the store does not change:
\* the total it read is the size of the store now, whatever offset and limit
\* are, and every entry of its page is a whole comment stored now.
C7_ListSeesOneState ==
    \A r \in Reqs :
        /\ (kind[r] = "list" /\ pc[r] \in {"values", "render"}) => total[r] = Len0(db)
        /\ ListAtRender(r) =>
              /\ Range(entries[r]) \subseteq Stored
              /\ Range(entries[r]) \subseteq Comment

C7_Witness ==
    \E r, w \in Reqs :
        /\ ListAtRender(r)
        /\ kind[w] = "create" /\ pc[w] = "write"
        /\ total[r] >= 1
        /\ entries[r] # << >>


\* A request inside the timeout layer whose outcome is not yet produced
Pending(r) == pc[r] = "extract" \/ pc[r] \in InHandler

NormalOutcomes == {"Created", "Ok", "NotFound", "RequestTimeout"}

C9_DrainLetsRequestsFinish ==
    /\ [][(sigTask = "woken" /\ sigTask' = "done") =>
            /\ UNCHANGED <<pc, kind, timer, comment, gid, pag, total, entries, out, db,
                           readers, writer>>
            /\ phase' = "ShuttingDown"
            /\ drain' = 0]_vars
    /\ [][\A r \in Reqs :
            (phase = "ShuttingDown" /\ drain < DrainSecs /\ atSignal[r] # "idle") =>
                /\ phase' = "Stopped" => pc[r] = "idle"
                /\ (pc[r] # "idle" /\ pc'[r] = "idle") =>
                      (pc[r] = "respond" /\ out[r].status \in NormalOutcomes)
                /\ pc[r] = "respond" => ENABLED Deliver(r)
                /\ (pc[r] = "insert") => ENABLED InsertComment(r)
                /\ (pc[r] = "respond" /\ out[r].status = "Created") =>
                      out[r].body \in Stored]_vars

C9_Witness ==
    \E r \in Reqs :
        /\ phase = "ShuttingDown"
        /\ drain > 0
        /\ drain < DrainSecs
        /\ atSignal[r] = "extract"
        /\ pc[r] = "respond"
        /\ out[r].status = "Created"

\* C10: ShuttingDown is entered from Serving only, by the listener's one call
\* after the first signal, with the window starting at 0; it is never entered
\* again, the first signal's kind stays the trigger, and a signal that
\* arrives while ShuttingDown changes nothing but the count of signals.
C10_ShutdownStartsOnce ==
    /\ [][(phase # "ShuttingDown" /\ phase' = "ShuttingDown") =>
            (phase = "Serving" /\ sigTask = "woken" /\ sigTask' = "done"
             /\ trigger \in SignalKinds /\ drain' = 0)]_vars
    /\ [][(phase \in {"ShuttingDown", "Stopped"}) =>
            (phase' \in {"ShuttingDown", "Stopped"})]_vars
    /\ [][trigger # "none" => trigger' = trigger]_vars
    /\ [][phase = "ShuttingDown" => (drain' >= drain /\ sigTask' = "done")]_vars
    /\ [][(phase = "ShuttingDown" /\ signals' # signals) =>
            UNCHANGED <<phase, sigTask, trigger, drain, db, issued, readers, writer, pc,
                        kind, timer, comment, gid, pag, total, entries, out, returned,
                        nReturned, atSignal, arrivals>>]_vars

C10_Witness ==
    /\ phase = "ShuttingDown"
    /\ ignored >= 1
    /\ signals = 2
    /\ drain > 0
    /\ \E r \in Reqs : pc[r] # "idle"

\* The clock moves: only Tick makes a timer or the window grow or starts a
\* new count of arrivals
ClockMoves ==
    \/ drain' > drain
    \/ arrivals' < arrivals
    \/ \E r \in Reqs : timer'[r] > timer[r]

\* C11: once ShuttingDown is entered the server eventually is Stopped; it
\* stops only when no request is in flight or the 30 s window has elapsed,
\* and once either has happened no time passes before it stops.
C11_StopsAtTheEarlier ==
    /\ (phase = "ShuttingDown") ~> (phase = "Stopped")
    /\ [][(phase = "ShuttingDown" /\ phase' = "Stopped") =>
            ((\A r \in Reqs : ~InFlight(r)) \/ drain >= DrainSecs)]_vars
    /\ [][(phase = "ShuttingDown"
            /\ ((\A r \in Reqs : ~InFlight(r)) \/ drain >= DrainSecs)) => ~ClockMoves]_vars
    /\ [](phase = "ShuttingDown" => drain <= DrainSecs)

C11_Witness ==
    /\ phase = "Stopped"
    /\ drain = DrainSecs
    /\ \E r \in Reqs : InFlight(r) /\ atSignal[r] # "idle"

\* C12: from the entry into ShuttingDown on, no connection is accepted: a
\* request in flight after a step was in flight before it, on the same
\* route, and nothing is counted as an arrival.
C12_NoAcceptAfterShutdown ==
    [][(phase \in {"ShuttingDown", "Stopped"}) =>
          ((\A r \in Reqs : InFlight(r)' => (InFlight(r) /\ kind'[r] = kind[r]))
           /\ arrivals' <= arrivals)]_vars

C12_Witness ==
    /\ phase = "ShuttingDown"
    /\ \E r \in Reqs : atSignal[r] # "idle" /\ InFlight(r)
    /\ \E r \in Reqs : FreeSlot(r)
    /\ arrivals < MaxArrivals

\* C13: a failed TLS load takes main from Starting to the abort and nowhere
\* else: the aborted process stays aborted, has accepted no connection,
\* processed no request, stored nothing and spawned no listener; Serving is
\* entered only by the successful load, which spawns the listener.
C13_TlsFailureAborts ==
    /\ [](phase = "Aborted" =>
            /\ \A r \in Reqs : ~InFlight(r) /\ out[r] = NoOutcome
            /\ arrivals = 0
            /\ db = EmptyMap
            /\ nReturned = 0
            /\ sigTask = "unspawned")
    /\ [][(phase = "Aborted") => UNCHANGED vars]_vars
    /\ [][(phase' = "Aborted") => (phase \in {"Starting", "Aborted"})]_vars
    /\ [][(phase = "Starting" /\ phase' # "Starting") =>
            (phase' = "Aborted" \/ (phase' = "Serving" /\ sigTask' = "waiting"))]_vars

C13_Witness ==
    /\ phase = "Aborted"
    /\ ~ENABLED (\E r \in Reqs : AcceptCreate(r) \/ AcceptList(r))

\* The spec's algorithm: sort the whole snapshot, then skip and take
SortedSlice(m, order, off, lim) == Take(Skip(SortByUtcDesc(Values(m, order)), off), lim)

\* C14: the page of a list request is the slice offset .. offset+limit-1 of
\* the whole snapshot sorted by utc descending (ties in any order).
C14_PageIsSliceOfSorted ==
    \A r \in Reqs :
        ListAtRender(r) =>
            \E order \in IterOrders(db) :
                entries[r] = SortedSlice(db, order, Offset(r), Limit(r))

\* The positions at which a request holds a guard of the store's lock
HoldsWrite(r) == pc[r] = "insert"
HoldsRead(r) == pc[r] \in {"get", "len", "values", "render"}

\* C15: a request that holds the write guard is the only holder; read guards
\* are held together; a request that asks for a read guard while no request
\* holds or awaits the write guard can take it, whoever is reading.
C15_LockExclusion ==
    /\ \A r \in Reqs : HoldsWrite(r) =>
          \A q \in Reqs \ {r} : ~HoldsWrite(q) /\ ~HoldsRead(q)
    /\ readers = {r \in Reqs : HoldsRead(r)}
    /\ \A r \in Reqs : HoldsWrite(r) <=> writer = r
    /\ \A r \in Reqs :
          (Running /\ pc[r] = "read" /\ \A q \in Reqs : pc[q] \notin {"write", "insert"}) =>
              ENABLED (AcquireReadGet(r) \/ AcquireReadList(r))

C15_Witness ==
    \E r, q \in Reqs :
        /\ r # q
        /\ HoldsRead(q)
        /\ pc[r] = "read"
        /\ kind[q] = "list"
        /\ kind[r] = "get"
        /\ ContainsKey(db, gid[r])

\* C16: in every step every stored comment stays stored under its id with
\* the same name, text and utc, and the store does not get smaller.
C16_StoreOnlyGrows ==
    [][/\ \A i \in DOMAIN db : i \in DOMAIN db' /\ db'[i] = db[i]
       /\ Len0(db') >= Len0(db)]_vars

C16_Witness ==
    /\ Len0(db) = 2
    /\ nReturned = 1
    /\ returned \subseteq Stored
    /\ \E r \in Reqs :
          /\ pc[r] = "respond"
          /\ out[r].status = "Created"
          /\ out[r].body \in Stored \ returned

\* A create request that the timeout layer has answered
TimedOutCreate(r) ==
    kind[r] = "create" /\ pc[r] = "respond" /\ out[r] = [status |-> "RequestTimeout"]

\* C17: the step that cuts a create off leaves the store as it was, every
\* record of the store is a complete comment filed under its own id, and the
\* request that was cut off has built no comment, so its comment is absent;
\* a request that has got as far as building its comment is never cut off.
C17_TimeoutLeavesStoreWhole ==
    /\ [][\A r \in Reqs : (~TimedOutCreate(r) /\ TimedOutCreate(r)') =>
            (db' = db /\ issued' = issued)]_vars
    /\ [](\A i \in DOMAIN db : db[i] \in Comment /\ db[i].id = i)
    /\ [](\A r \in Reqs : TimedOutCreate(r) =>
            (comment[r] = NoComment /\ \A c \in Stored : c \in returned \/
                \E q \in Reqs \ {r} : comment[q] = c))
    /\ [][\A r \in Reqs : (comment[r] # NoComment /\ pc[r] # "respond") =>
            ~TimedOutCreate(r)']_vars

C17_Witness ==
    \E r \in Reqs :
        /\ TimedOutCreate(r)
        /\ Len0(db) >= 1
        /\ phase = "Serving"

\* The positions at which a request has asked for a guard and waits for it
AsksLock(r) == pc[r] \in {"write", "read"}

\* C18: under fair scheduling every request that asks for the store's lock
\* acquires it and every request that holds it releases it; no guard is held
\* at a suspension point, and a holder can always take its next step.
C18_LockIsLive ==
    /\ \A r \in LockReqs : AsksLock(r) ~> (HoldsWrite(r) \/ HoldsRead(r))
    /\ \A r \in LockReqs : (HoldsWrite(r) \/ HoldsRead(r)) ~> (writer # r /\ r \notin readers)
    /\ [](\A r \in LockReqs : pc[r] \in {"idle", "extract", "respond"} =>
            (writer # r /\ r \notin readers))
    /\ [](\A r \in LockReqs :
            /\ HoldsWrite(r) => ENABLED InsertComment(r)
            /\ HoldsRead(r) =>
                  ENABLED (GetComment(r) \/ ReadTotal(r) \/ RenderEntries(r)
                           \/ \E p \in LifePages : CollectEntries(r, p)))

\* A step of request r
Moves(r) == pc'[r] # pc[r]

\* C19: no step of a get or list request changes the store, whatever its
\* input; the store changes only in the insert step of a create request,
\* which adds exactly one entry, and a create request takes that step once.
C19_ReadsLeaveStoreUnchanged ==
    /\ [][\A r \in Reqs :
            (Moves(r) /\ (kind[r] \in {"get", "list"} \/ kind'[r] \in {"get", "list"})) =>
                (db' = db /\ issued' = issued)]_vars
    /\ [][(db' # db) =>
            \E r \in Reqs :
                /\ kind[r] = "create" /\ pc[r] = "insert" /\ pc'[r] = "respond"
                /\ DOMAIN db' = DOMAIN db \cup {comment[r].id}
                /\ comment[r].id \notin DOMAIN db
                /\ Len0(db') = Len0(db) + 1]_vars
    /\ [][\A r \in Reqs : (kind[r] = "create" /\ pc[r] = "respond") =>
            pc'[r] \in {"respond", "idle"}]_vars

C19_Witness ==
    /\ Len0(db) = 2
    /\ \E r, q \in Reqs :
          /\ kind[r] = "list" /\ pc[r] = "respond"
          /\ out[r].total = 2 /\ out[r].entries = << >>
          /\ kind[q] = "get" /\ pc[q] = "respond"
          /\ out[q].status = "NotFound"

Max(a, b) == IF a >= b THEN a ELSE b

\* C20: with N comments stored, the page of a list request with the given
\* or defaulted offset and limit has min(limit, max(0, N - offset)) entries,
\* each a comment of the store, no comment twice, in non-increasing order
\* of utc.
C20_PageSizeAndOrder ==
    \A r \in Reqs :
        ListAtRender(r) =>
            /\ Len(entries[r]) = Min(Limit(r), Max(0, Len0(db) - Offset(r)))
            /\ \A i \in 1..Len(entries[r]) :
                  /\ entries[r][i].id \in DOMAIN db
                  /\ entries[r][i] = db[entries[r][i].id]
            /\ \A i, j \in 1..Len(entries[r]) :
                  i < j => /\ entries[r][i].id # entries[r][j].id
                           /\ entries[r][i].utc >= entries[r][j].utc

C20_Witness ==
    \E r \in Reqs :
        /\ ListAtRender(r)
        /\ pag[r].limit = NoneOpt
        /\ pag[r].offset = 1
        /\ Len0(db) = 3
        /\ Len(entries[r]) = 2
        /\ entries[r][1].utc = entries[r][2].utc

=============================================================================
